---- MODULE Spec2Model ----
(***************************************************************************)
(* Model of src/utils/config.py: the Config singleton (class attributes    *)
(* _instance and _config, __new__, __init__, load_config) and the dotted   *)
(* path lookup Config.get.                                                 *)
(*                                                                         *)
(* Python values are tagged records [kind, v]; a str is a sequence of      *)
(* one-character strings so that str.split can be computed.                *)
(***************************************************************************)
EXTENDS Naturals, Sequences, FiniteSets, TLC

VARIABLES
    fs,            \* filesystem: expanded path -> file text, or Absent
    cls_instance,  \* class attribute Config._instance (0 is None, else an object id)
    obj_config,    \* obj_config[o]: what self._config reads on object o
    pc,            \* pc[t]: position of thread t inside Config() (source line)
    self,          \* self[t]: object a running Config() call of t works on (0: none yet)
    idx,           \* idx[t]: position of the for loop of load_config in config_paths
    fh,            \* fh[t]: file opened by the with statement of t, or NoFile
    pending,       \* pending[t]: exception travelling through the with block, or "none"
    outcome,       \* outcome[t]: how the Config() call of t ended
    checked,       \* checked[t]: the paths whose exists() the call of t evaluated, in order
    opened,        \* opened[t]: the paths the call of t opened, in order
    handle,        \* handle[t]: the Config object the caller t holds (0: none)
    loadsDone,     \* number of completed loads (safe_load returned and was stored)
    notFound,      \* number of Config() calls that ended in FileNotFoundError
    nreq,          \* number of Config() calls started so far
    lastGet        \* the last get call: arguments, the _config it read, result

vars == <<fs, cls_instance, obj_config, pc, self, idx, fh, pending, outcome,
          checked, opened, handle, loadsDone, notFound, nreq, lastGet>>

lifeVars == <<fs, cls_instance, obj_config, pc, self, idx, fh, pending, outcome,
              checked, opened, handle, loadsDone, notFound, nreq>>

-----------------------------------------------------------------------------
(* Bounds *)

NThreads == 2
MaxRequests == 3
MaxPathLen == 5

Threads == 1..NThreads

-----------------------------------------------------------------------------
(* Python values *)

None == [kind |-> "null", v |-> ""]
Str(s) == [kind |-> "str", v |-> s]
Bool(b) == [kind |-> "bool", v |-> b]
Int(n) == [kind |-> "int", v |-> n]
List(q) == [kind |-> "list", v |-> q]
Dict(f) == [kind |-> "dict", v |-> f]
Raised(e) == [kind |-> "raise", v |-> e]

EmptyMap == [k \in {} |-> None]

\* dict.get(key, default); on an object without a get method the attribute
\* lookup raises AttributeError
DictGet(value, key, default) ==
    IF value.kind # "dict" THEN Raised("AttributeError")
    ELSE IF key \in DOMAIN value.v THEN value.v[key] ELSE default

\* str.split('.'): one more segment than there are dots, empty segments kept
RECURSIVE Split(_)
Split(s) ==
    IF s = <<>> THEN << <<>> >>
    ELSE IF Head(s) = "." THEN << <<>> >> \o Split(Tail(s))
    ELSE LET r == Split(Tail(s))
         IN  << <<Head(s)>> \o Head(r) >> \o Tail(r)

\* isinstance(value, dict) left out
IsDict_unchecked(value) == TRUE

\* isinstance(value, dict)
IsDict(value) == value.kind = "dict"

\* Python truth value of a value
Truthy(value) ==
    CASE value.kind = "null" -> FALSE
      [] value.kind = "bool" -> value.v
      [] value.kind = "int" -> value.v # 0
      [] value.kind \in {"str", "list"} -> value.v # <<>>
      [] value.kind = "dict" -> DOMAIN value.v # {}
      [] OTHER -> TRUE

\* the loop with "if not value" in place of "if value is None"
RECURSIVE GetLoop_falsy(_, _, _)
GetLoop_falsy(value, keys, default) ==
    IF keys = <<>> THEN value
    ELSE IF ~IsDict(value) THEN default
    ELSE LET got == DictGet(value, Head(keys), default)
         IN  IF got.kind = "raise" THEN got
             ELSE IF ~Truthy(got) THEN default
             ELSE GetLoop_falsy(got, Tail(keys), default)

\* the loop without the "if value is None" test
RECURSIVE GetLoop_nullthrough(_, _, _)
GetLoop_nullthrough(value, keys, default) ==
    IF keys = <<>> THEN value
    ELSE IF ~IsDict(value) THEN default
    ELSE LET got == DictGet(value, Head(keys), default)
         IN  IF got.kind = "raise" THEN got
             ELSE GetLoop_nullthrough(got, Tail(keys), default)

\* the for loop of Config.get over the remaining keys; an exception raised
\* inside it leaves get
RECURSIVE GetLoop(_, _, _)
GetLoop(value, keys, default) ==
    IF keys = <<>> THEN value
    ELSE IF ~IsDict(value) THEN default
    ELSE LET got == DictGet(value, Head(keys), default)
         IN  IF got.kind = "raise" THEN got
             ELSE IF got = None THEN default
             ELSE GetLoop(got, Tail(keys), default)

\* Config.get(path, default) on a handle whose _config is config
Get(config, path, default) == GetLoop(config, Split(path), default)

-----------------------------------------------------------------------------
(* Source files and the parser *)

Absent == "<absent>"
NoFile == "<no file>"

HomeDir == "/home/user"

\* Path.expanduser
expanduser(p) ==
    IF p = "~/.config/activist/config.yml"
    THEN HomeDir \o "/.config/activist/config.yml"
    ELSE p

config_paths ==
    << "config.yml",
       expanduser("~/.config/activist/config.yml"),
       "/etc/activist/config.yml" >>

FsPaths == {config_paths[i] : i \in 1..Len(config_paths)}

\* Path.exists
exists(f, p) == f[p] # Absent

ka == <<"a">>
kb == <<"b">>
ke == <<>>

\* yaml.safe_load of a file text: the document, or the parser's error
safe_load(text) ==
    CASE text = "" -> None
      [] text = "{}" -> Dict(EmptyMap)
      [] text = "x" -> Str(<<"x">>)
      [] text = "- x" -> List(<<Str(<<"x">>)>>)
      [] text = "a: {a: x, b: false, '': 0}\nb: [x]\n'': ''" ->
            Dict(ka :> Dict(ka :> Str(<<"x">>) @@ kb :> Bool(FALSE) @@ ke :> Int(0))
                 @@ kb :> List(<<Str(<<"x">>)>>)
                 @@ ke :> Str(<<>>))
      [] text = "a: {b: {a: true}}\nb: ~" ->
            Dict(ka :> Dict(kb :> Dict(ka :> Bool(TRUE)))
                 @@ kb :> None)
      [] text = "a: ~\nb: {a: ~, b: x}" ->
            Dict(ka :> None
                 @@ kb :> Dict(ka :> None @@ kb :> Str(<<"x">>)))
      [] text = "a: [" -> Raised("YAMLError")
      [] OTHER -> Raised("YAMLError")

-----------------------------------------------------------------------------
(* Inputs *)

\* file texts the environment writes while Config() calls come and go
LifeTexts == {"", "a: {b: {a: true}}\nb: ~", "a: ["}

\* file texts a handle can have been loaded from
DocTexts ==
    {"", "{}", "x", "- x",
     "a: {a: x, b: false, '': 0}\nb: [x]\n'': ''",
     "a: {b: {a: true}}\nb: ~",
     "a: ~\nb: {a: ~, b: x}"}

Alphabet == {"a", "b", "."}

PathStrings == UNION {[1..n -> Alphabet] : n \in 0..MaxPathLen}

Defaults ==
    {None, Str(<<"f">>), Bool(FALSE),
     Dict(ka :> Str(<<"y">>) @@ kb :> None)}

\* arguments of the get calls made while Config() calls are running
LifePaths == {<<"a", ".", "b">>, <<"b">>}
LifeDefaults == {None, Str(<<"f">>)}

NoGet == [path |-> <<>>, default |-> None, config |-> None, result |-> None]

-----------------------------------------------------------------------------
(* Config(): type.__call__ runs __new__, then __init__ on what it returned *)

Idle(t) == pc[t] = "idle"

\* no other thread is inside a call
Quiet(t) == \A u \in Threads \ {t} : Idle(u)

\* a caller starts Config()
Call(t) ==
    /\ Idle(t)
    /\ nreq < MaxRequests
    /\ nreq' = nreq + 1
    /\ pc' = [pc EXCEPT ![t] = "L19"]
    /\ UNCHANGED <<fs, cls_instance, obj_config, self, idx, fh, pending, outcome,
                   checked, opened, handle, loadsDone, notFound, lastGet>>

\* __new__, line 19: if cls._instance is None
L19_test(t) ==
    /\ pc[t] = "L19"
    /\ pc' = [pc EXCEPT ![t] = IF cls_instance = 0 THEN "L20" ELSE "L21"]
    /\ UNCHANGED <<fs, cls_instance, obj_config, self, idx, fh, pending, outcome,
                   checked, opened, handle, loadsDone, notFound, nreq, lastGet>>

\* __new__, line 20: cls._instance = super().__new__(cls); the new object has
\* no _config of its own, so self._config reads the class attribute None
L20_create(t) ==
    /\ pc[t] = "L20"
    /\ obj_config' = Append(obj_config, None)
    /\ cls_instance' = Len(obj_config) + 1
    /\ pc' = [pc EXCEPT ![t] = "L21"]
    /\ UNCHANGED <<fs, self, idx, fh, pending, outcome, checked, opened, handle,
                   loadsDone, notFound, nreq, lastGet>>

\* __new__, line 21: return cls._instance; __init__ is then called on it
L21_return(t) ==
    /\ pc[t] = "L21"
    /\ self' = [self EXCEPT ![t] = cls_instance]
    /\ pc' = [pc EXCEPT ![t] = "L24"]
    /\ UNCHANGED <<fs, cls_instance, obj_config, idx, fh, pending, outcome,
                   checked, opened, handle, loadsDone, notFound, nreq, lastGet>>

\* __init__, line 24: if self._config is None: self.load_config()
L24_test(t) ==
    /\ pc[t] = "L24"
    /\ IF obj_config[self[t]] = None
       THEN /\ pc' = [pc EXCEPT ![t] = "L40"]
            /\ idx' = [idx EXCEPT ![t] = 1]
            /\ UNCHANGED outcome
       ELSE /\ pc' = [pc EXCEPT ![t] = "done"]
            /\ outcome' = [outcome EXCEPT ![t] = "ok"]
            /\ UNCHANGED idx
    /\ UNCHANGED <<fs, cls_instance, obj_config, self, fh, pending,
                   checked, opened, handle, loadsDone, notFound, nreq, lastGet>>

\* the search that keeps going after a hit: the last existing path wins
RECURSIVE Search_last(_, _)
Search_last(f, i) ==
    IF i > Len(config_paths) THEN i
    ELSE IF exists(f, config_paths[i])
              /\ \A j \in (i + 1)..Len(config_paths) : ~exists(f, config_paths[j])
         THEN i
    ELSE Search_last(f, i + 1)

\* load_config, lines 39-40: for path in config_paths: if path.exists();
\* the index of the first path from i on that exists, Len(config_paths) + 1
\* when the loop runs out
RECURSIVE Search(_, _)
Search(f, i) ==
    IF i > Len(config_paths) THEN i
    ELSE IF exists(f, config_paths[i]) THEN i
    ELSE Search(f, i + 1)

\* load_config, lines 39-40: the loop up to the first path that exists (no
\* file changes while a call runs, so the iterations are one step)
L40_exists(t) ==
    /\ pc[t] = "L40"
    /\ LET i == Search(fs, idx[t])
           last == IF i > Len(config_paths) THEN Len(config_paths) ELSE i
       IN  /\ idx' = [idx EXCEPT ![t] = i]
           /\ checked' = [checked EXCEPT ![t] = @ \o SubSeq(config_paths, idx[t], last)]
           /\ pc' = [pc EXCEPT ![t] = IF i > Len(config_paths) THEN "L45" ELSE "L41"]
    /\ UNCHANGED <<fs, cls_instance, obj_config, self, fh, pending, outcome,
                   opened, handle, loadsDone, notFound, nreq, lastGet>>

\* load_config, line 41: with open(path, 'r', encoding='utf-8') as f
L41_open(t) ==
    /\ pc[t] = "L41"
    /\ LET path == config_paths[idx[t]]
       IN  /\ fh' = [fh EXCEPT ![t] = path]
           /\ opened' = [opened EXCEPT ![t] = Append(@, path)]
    /\ pc' = [pc EXCEPT ![t] = "L42"]
    /\ UNCHANGED <<fs, cls_instance, obj_config, self, idx, pending, outcome,
                   checked, handle, loadsDone, notFound, nreq, lastGet>>

\* load_config, line 42: self._config = yaml.safe_load(f); a parser error
\* leaves the assignment undone and travels out through the with block
L42_load(t) ==
    /\ pc[t] = "L42"
    /\ LET doc == safe_load(fs[fh[t]])
       IN  IF doc.kind = "raise"
           THEN /\ pending' = [pending EXCEPT ![t] = doc.v]
                /\ UNCHANGED <<obj_config, loadsDone>>
           ELSE /\ obj_config' = [obj_config EXCEPT ![self[t]] = doc]
                /\ loadsDone' = loadsDone + 1
                /\ UNCHANGED pending
    /\ pc' = [pc EXCEPT ![t] = "exit"]
    /\ UNCHANGED <<fs, cls_instance, self, idx, fh, outcome,
                   checked, opened, handle, notFound, nreq, lastGet>>

\* open() without the with statement, closed only after a parse that returned
WithExit_leak(t) ==
    /\ pc[t] = "exit"
    /\ fh' = [fh EXCEPT ![t] = IF pending[t] = "none" THEN NoFile ELSE @]
    /\ IF pending[t] = "none"
       THEN /\ pc' = [pc EXCEPT ![t] = "done"]
            /\ outcome' = [outcome EXCEPT ![t] = "ok"]
       ELSE /\ pc' = [pc EXCEPT ![t] = "raised"]
            /\ outcome' = [outcome EXCEPT ![t] = pending[t]]
    /\ pending' = [pending EXCEPT ![t] = "none"]
    /\ UNCHANGED <<fs, cls_instance, obj_config, self, idx,
                   checked, opened, handle, loadsDone, notFound, nreq, lastGet>>

\* load_config, end of the with block (line 41's __exit__) and line 43:
\* the file is closed; then return, or the pending exception goes on
WithExit(t) ==
    /\ pc[t] = "exit"
    /\ fh' = [fh EXCEPT ![t] = NoFile]
    /\ IF pending[t] = "none"
       THEN /\ pc' = [pc EXCEPT ![t] = "done"]
            /\ outcome' = [outcome EXCEPT ![t] = "ok"]
       ELSE /\ pc' = [pc EXCEPT ![t] = "raised"]
            /\ outcome' = [outcome EXCEPT ![t] = pending[t]]
    /\ pending' = [pending EXCEPT ![t] = "none"]
    /\ UNCHANGED <<fs, cls_instance, obj_config, self, idx,
                   checked, opened, handle, loadsDone, notFound, nreq, lastGet>>

\* line 45 returning instead of raising
L45_swallow(t) ==
    /\ pc[t] = "L45"
    /\ pc' = [pc EXCEPT ![t] = "done"]
    /\ outcome' = [outcome EXCEPT ![t] = "ok"]
    /\ UNCHANGED <<fs, cls_instance, obj_config, self, idx, fh, pending,
                   checked, opened, handle, loadsDone, notFound, nreq, lastGet>>

\* line 45 preceded by self._config = {}
L45_placeholder(t) ==
    /\ pc[t] = "L45"
    /\ obj_config' = [obj_config EXCEPT ![self[t]] = Dict(EmptyMap)]
    /\ pc' = [pc EXCEPT ![t] = "raised"]
    /\ outcome' = [outcome EXCEPT ![t] = "FileNotFoundError"]
    /\ notFound' = notFound + 1
    /\ UNCHANGED <<fs, cls_instance, self, idx, fh, pending,
                   checked, opened, handle, loadsDone, nreq, lastGet>>

\* load_config, line 45: raise FileNotFoundError("No configuration file found")
L45_raise(t) ==
    /\ pc[t] = "L45"
    /\ pc' = [pc EXCEPT ![t] = "raised"]
    /\ outcome' = [outcome EXCEPT ![t] = "FileNotFoundError"]
    /\ notFound' = notFound + 1
    /\ UNCHANGED <<fs, cls_instance, obj_config, self, idx, fh, pending,
                   checked, opened, handle, loadsDone, nreq, lastGet>>

\* Config() is over: the caller holds the object it returned, or, when it
\* raised, what the caller held before
Return(t) ==
    /\ pc[t] \in {"done", "raised"}
    /\ handle' = [handle EXCEPT ![t] = IF pc[t] = "done" THEN self[t] ELSE @]
    /\ pc' = [pc EXCEPT ![t] = "idle"]
    /\ self' = [self EXCEPT ![t] = 0]
    /\ idx' = [idx EXCEPT ![t] = 0]
    /\ outcome' = [outcome EXCEPT ![t] = "none"]
    /\ checked' = [checked EXCEPT ![t] = <<>>]
    /\ opened' = [opened EXCEPT ![t] = <<>>]
    /\ UNCHANGED <<fs, cls_instance, obj_config, fh, pending,
                   loadsDone, notFound, nreq, lastGet>>

\* the environment creates, replaces (c a text) or removes (c = Absent) a
\* candidate file between calls
FsWrite(p, c) ==
    /\ \A t \in Threads : Idle(t)
    /\ fs[p] # c
    /\ fs' = [fs EXCEPT ![p] = c]
    /\ UNCHANGED <<cls_instance, obj_config, pc, self, idx, fh, pending, outcome,
                   checked, opened, handle, loadsDone, notFound, nreq, lastGet>>

\* get walking with self._config in place of the local value
GetCall_store(t, path, default) ==
    /\ Idle(t)
    /\ handle[t] # 0
    /\ lastGet' = [path |-> path, default |-> default,
                   config |-> obj_config[handle[t]],
                   result |-> Get(obj_config[handle[t]], path, default)]
    /\ obj_config' = [obj_config EXCEPT
                         ![handle[t]] = Get(obj_config[handle[t]], path, default)]
    /\ UNCHANGED <<fs, cls_instance, pc, self, idx, fh, pending, outcome,
                   checked, opened, handle, loadsDone, notFound, nreq>>

\* Config.get(path, default) on the handle the caller holds
GetCall(t, path, default) ==
    /\ Idle(t)
    /\ handle[t] # 0
    /\ lastGet' = [path |-> path, default |-> default,
                   config |-> obj_config[handle[t]],
                   result |-> Get(obj_config[handle[t]], path, default)]
    /\ UNCHANGED lifeVars

-----------------------------------------------------------------------------
(* Specifications *)

Init ==
    /\ fs \in [FsPaths -> LifeTexts \cup {Absent}]
    /\ cls_instance = 0
    /\ obj_config = <<>>
    /\ pc = [t \in Threads |-> "idle"]
    /\ self = [t \in Threads |-> 0]
    /\ idx = [t \in Threads |-> 0]
    /\ fh = [t \in Threads |-> NoFile]
    /\ pending = [t \in Threads |-> "none"]
    /\ outcome = [t \in Threads |-> "none"]
    /\ checked = [t \in Threads |-> <<>>]
    /\ opened = [t \in Threads |-> <<>>]
    /\ handle = [t \in Threads |-> 0]
    /\ loadsDone = 0
    /\ notFound = 0
    /\ nreq = 0
    /\ lastGet = NoGet

Step(t) ==
    \/ L19_test(t)
    \/ L20_create(t)
    \/ L21_return(t)
    \/ L24_test(t)
    \/ L40_exists(t)
    \/ L41_open(t)
    \/ L42_load(t)
    \/ WithExit(t)
    \/ L45_raise(t)
    \/ Return(t)

Write == \E p \in FsPaths, c \in LifeTexts \cup {Absent} : FsWrite(p, c)

\* one caller at a time: the single-threaded program
CallSeq(t) == Quiet(t) /\ Call(t)

Next ==
    \/ \E t \in Threads : CallSeq(t)
    \/ \E t \in Threads : Step(t)
    \/ Write

Spec == Init /\ [][Next]_vars

\* threads call Config() and get with no coordination
GetLife(t) == \E path \in LifePaths, default \in LifeDefaults : GetCall(t, path, default)

NextConc ==
    \/ \E t \in Threads : Call(t)
    \/ \E t \in Threads : Step(t)
    \/ \E t \in Threads : GetLife(t)

\* the threads race over one project-local file, present or not
InitConc ==
    /\ Init
    /\ fs[config_paths[1]] \in LifeTexts \cup {Absent}
    /\ \A i \in 2..Len(config_paths) : fs[config_paths[i]] = Absent

SpecConc == InitConc /\ [][NextConc]_vars

\* lookups on a handle that one Config() call loaded from ./config.yml
InitGet ==
    /\ \E text \in DocTexts :
          /\ fs = [p \in FsPaths |-> IF p = config_paths[1] THEN text ELSE Absent]
          /\ obj_config = <<safe_load(text)>>
    /\ cls_instance = 1
    /\ pc = [t \in Threads |-> "idle"]
    /\ self = [t \in Threads |-> 0]
    /\ idx = [t \in Threads |-> 0]
    /\ fh = [t \in Threads |-> NoFile]
    /\ pending = [t \in Threads |-> "none"]
    /\ outcome = [t \in Threads |-> "none"]
    /\ checked = [t \in Threads |-> <<>>]
    /\ opened = [t \in Threads |-> <<>>]
    /\ handle = [t \in Threads |-> IF t = 1 THEN 1 ELSE 0]
    /\ loadsDone = 1
    /\ notFound = 0
    /\ nreq = 1
    /\ lastGet = NoGet

\* get changes nothing but the record of the call, so the calls made from the
\* loaded handle reach every state a sequence of calls reaches
GetAny(t) ==
    /\ lastGet = NoGet
    /\ \E path \in PathStrings, default \in Defaults : GetCall(t, path, default)

NextGet == \E t \in Threads : GetAny(t)

SpecGet == InitGet /\ [][NextGet]_vars

-----------------------------------------------------------------------------
(* What a document stores, stated apart from the lookup code *)

\* every key of keys is a key of the mapping reached through the keys before it
RECURSIVE Present(_, _)
Present(doc, keys) ==
    \/ keys = <<>>
    \/ /\ doc.kind = "dict"
       /\ Head(keys) \in DOMAIN doc.v
       /\ Present(doc.v[Head(keys)], Tail(keys))

\* the value stored under keys, where Present(doc, keys)
RECURSIVE Stored(_, _)
Stored(doc, keys) ==
    IF keys = <<>> THEN doc ELSE Stored(doc.v[Head(keys)], Tail(keys))

Prefix(keys, n) == SubSeq(keys, 1, n)

\* the value reached after n keys is a mapping without the next key
AbsentAt(doc, keys, n) ==
    /\ n < Len(keys)
    /\ Present(doc, Prefix(keys, n))
    /\ Stored(doc, Prefix(keys, n)).kind = "dict"
    /\ keys[n + 1] \notin DOMAIN Stored(doc, Prefix(keys, n)).v

\* the value reached after n keys is no mapping and keys remain
MistypedAt(doc, keys, n) ==
    /\ n < Len(keys)
    /\ Present(doc, Prefix(keys, n))
    /\ Stored(doc, Prefix(keys, n)).kind # "dict"

\* the first n keys lead to a stored null
NullAt(doc, keys, n) ==
    /\ n >= 1
    /\ n <= Len(keys)
    /\ Present(doc, Prefix(keys, n))
    /\ Stored(doc, Prefix(keys, n)) = None

GetMade == lastGet # NoGet
GetKeys == Split(lastGet.path)

-----------------------------------------------------------------------------
(* Claims about Config.get, under SpecGet *)

\* C3: for every document, every dotted path absent from it (some segment is
\* not a key of the mapping reached so far) and every default, a mapping
\* included, get(path, default) returns exactly default.
C3_AbsentReturnsDefault ==
    (GetMade /\ \E n \in 0..Len(GetKeys) : AbsentAt(lastGet.config, GetKeys, n))
        => lastGet.result = lastGet.default

\* C4: for every loaded document and every dotted path whose segments are all
\* present along nested mappings and whose stored value is not null, get
\* returns exactly the stored value, whatever its kind.
C4_PresentReturnsStored ==
    (GetMade /\ Present(lastGet.config, GetKeys)
             /\ Stored(lastGet.config, GetKeys) # None)
        => lastGet.result = Stored(lastGet.config, GetKeys)

\* get(path) with no default returned a stored false found two levels down
C4_Witness ==
    /\ GetMade
    /\ lastGet.default = None
    /\ Len(GetKeys) = 2
    /\ Present(lastGet.config, GetKeys)
    /\ Stored(lastGet.config, GetKeys) = Bool(FALSE)
    /\ lastGet.result = Bool(FALSE)

\* C6: when the traversal reaches a value that is no mapping (a scalar, a
\* sequence, a non-mapping root) while segments remain, get returns default;
\* get raises for no path.
C6_MistypedReturnsDefault ==
    GetMade =>
        /\ lastGet.result.kind # "raise"
        /\ (\E n \in 0..Len(GetKeys) : MistypedAt(lastGet.config, GetKeys, n))
              => lastGet.result = lastGet.default

\* a string met one level above the end of the path gave the default
C6_Witness ==
    /\ GetMade
    /\ lastGet.default = Str(<<"f">>)
    /\ \E n \in 1..Len(GetKeys) :
          /\ MistypedAt(lastGet.config, GetKeys, n)
          /\ Stored(lastGet.config, Prefix(GetKeys, n)).kind = "str"
    /\ lastGet.result = Str(<<"f">>)

\* C7: when a segment of the path, final or not, retrieves a stored null,
\* get(path, default) returns default.
C7_StoredNullReturnsDefault ==
    (GetMade /\ \E n \in 0..Len(GetKeys) : NullAt(lastGet.config, GetKeys, n))
        => lastGet.result = lastGet.default

\* a null stored at the end of a two-segment path gave the non-null default
C7_Witness ==
    /\ GetMade
    /\ lastGet.default = Str(<<"f">>)
    /\ Len(GetKeys) = 2
    /\ NullAt(lastGet.config, GetKeys, 2)
    /\ lastGet.result = Str(<<"f">>)

-----------------------------------------------------------------------------
(* Claims about Config() in the single-threaded program, under Spec *)

\* the search order as the specification lists it, ~ expanded
SearchOrder ==
    << "config.yml",
       "/home/user/.config/activist/config.yml",
       "/etc/activist/config.yml" >>

NoneExists == \A p \in FsPaths : fs[p] = Absent

\* position in SearchOrder of the earliest path that exists
Earliest ==
    CHOOSE i \in 1..Len(SearchOrder) :
        /\ fs[SearchOrder[i]] # Absent
        /\ \A j \in 1..(i - 1) : fs[SearchOrder[j]] = Absent

\* the Config() call of t is over and its result not yet taken by the caller;
\* no file has changed since the call began
Finished(t) == pc[t] \in {"done", "raised"}

\* the call of t ran load_config
Searched(t) == checked[t] # <<>>

\* C1: in any sequence of Config() calls at most one load ever occurs, for
\* every document the parser can produce, a null document included.
C1_AtMostOneLoad == loadsDone <= 1

\* C2: whichever candidate paths exist, load_config loads the document of the
\* existing path earliest in the fixed order and opens no later path.
C2_FirstExistingWins ==
    \A t \in Threads :
        /\ Len(opened[t]) <= 1
        /\ (Finished(t) /\ Searched(t) /\ ~NoneExists) =>
              /\ opened[t] = <<SearchOrder[Earliest]>>
              /\ checked[t] = SubSeq(SearchOrder, 1, Earliest)
              /\ outcome[t] = "ok" =>
                    obj_config[self[t]] = safe_load(fs[SearchOrder[Earliest]])

\* only the second and third path exist, the third is malformed; the call
\* loaded the second
C2_Witness ==
    \E t \in Threads :
        /\ pc[t] = "done"
        /\ fs[SearchOrder[1]] = Absent
        /\ fs[SearchOrder[2]] = "a: {b: {a: true}}\nb: ~"
        /\ fs[SearchOrder[3]] = "a: ["
        /\ opened[t] = <<SearchOrder[2]>>
        /\ obj_config[self[t]] = safe_load("a: {b: {a: true}}\nb: ~")

\* C5: when none of the three paths exists the load fails with
\* FileNotFoundError, which reaches the caller of Config(), and the handle
\* is left without a document.
C5_NotFoundPropagates ==
    \A t \in Threads :
        (Finished(t) /\ Searched(t) /\ NoneExists) =>
            /\ pc[t] = "raised"
            /\ outcome[t] = "FileNotFoundError"
            /\ opened[t] = <<>>
            /\ obj_config[self[t]] = None

C5_Witness ==
    \E t \in Threads :
        /\ pc[t] = "raised"
        /\ NoneExists
        /\ outcome[t] = "FileNotFoundError"
        /\ checked[t] = SearchOrder

\* C8: when the first existing file is malformed the parser's error reaches
\* the caller as it is, no document is stored, no later path is tried, and
\* the file is closed; no call that returned or raised holds an open file.
C8_MalformedPropagatesAndCloses ==
    \A t \in Threads :
        /\ (Finished(t) \/ Idle(t)) => fh[t] = NoFile
        /\ (Finished(t) /\ Searched(t) /\ ~NoneExists
              /\ safe_load(fs[SearchOrder[Earliest]]).kind = "raise") =>
              /\ pc[t] = "raised"
              /\ outcome[t] = "YAMLError"
              /\ obj_config[self[t]] = None
              /\ opened[t] = <<SearchOrder[Earliest]>>
              /\ checked[t] = SubSeq(SearchOrder, 1, Earliest)

\* the first path is malformed, the second holds a document; the call raised
\* the parser's error and the file is closed
C8_Witness ==
    \E t \in Threads :
        /\ pc[t] = "raised"
        /\ outcome[t] = "YAMLError"
        /\ fs[SearchOrder[1]] = "a: ["
        /\ fs[SearchOrder[2]] = "a: {b: {a: true}}\nb: ~"
        /\ opened[t] = <<SearchOrder[1]>>
        /\ fh[t] = NoFile

\* an earlier Config() call ended in FileNotFoundError
FailedBefore(t) ==
    \/ notFound >= 2
    \/ notFound = 1 /\ outcome[t] # "FileNotFoundError"

\* C9: after a Config() call that found no path, the singleton stays
\* registered without a document and every later call runs the search once:
\* it raises FileNotFoundError again while no path exists and loads the
\* document of the first existing path as soon as one exists.
C9_RetryAfterNotFound ==
    \A t \in Threads :
        /\ (pc[t] = "raised" /\ outcome[t] = "FileNotFoundError") =>
              /\ cls_instance # 0
              /\ self[t] = cls_instance
              /\ obj_config[cls_instance] = None
        /\ (Finished(t) /\ FailedBefore(t)) =>
              /\ self[t] = cls_instance
              /\ Len(obj_config) = 1
              /\ Searched(t) \/ (loadsDone >= 1 /\ obj_config[self[t]] # None)
              /\ (Searched(t) /\ NoneExists) =>
                    /\ outcome[t] = "FileNotFoundError"
                    /\ checked[t] = SearchOrder
              /\ (Searched(t) /\ ~NoneExists) =>
                    /\ checked[t] = SubSeq(SearchOrder, 1, Earliest)
                    /\ opened[t] = <<SearchOrder[Earliest]>>
                    /\ safe_load(fs[SearchOrder[Earliest]]).kind # "raise" =>
                          /\ outcome[t] = "ok"
                          /\ obj_config[self[t]] = safe_load(fs[SearchOrder[Earliest]])

\* two calls found no path; a file then appeared at the second path and the
\* third call loaded it
C9_Witness ==
    \E t \in Threads :
        /\ pc[t] = "done"
        /\ notFound = 2
        /\ nreq = 3
        /\ fs[SearchOrder[1]] = Absent
        /\ fs[SearchOrder[2]] # Absent
        /\ opened[t] = <<SearchOrder[2]>>
        /\ obj_config[cls_instance] = safe_load(fs[SearchOrder[2]])
        /\ obj_config[cls_instance] # None

-----------------------------------------------------------------------------
(* Claim about threads, under SpecConc *)

\* what a lookup gives in a single-threaded run, for a default that is no mapping
Expected(doc, keys, default) ==
    IF Present(doc, keys) /\ Stored(doc, keys) # None
    THEN Stored(doc, keys)
    ELSE default

\* C10: first-time initialisation is an unguarded check-then-act (two threads
\* can load the file twice and create two handles); a get call by any thread
\* changes no document and returns what it returns in a sequential run.
C10_GetsLeaveDocument ==
    [][lastGet' # lastGet =>
          /\ UNCHANGED <<fs, cls_instance, obj_config>>
          /\ \E t \in Threads :
                /\ handle[t] # 0
                /\ lastGet'.config = obj_config[handle[t]]
          /\ lastGet'.result =
                Expected(lastGet'.config, Split(lastGet'.path), lastGet'.default)]_vars

\* two threads hold two distinct handles, each with a document of its own
\* load, and one of them has made a lookup
C10_Witness ==
    /\ loadsDone = 2
    /\ Len(obj_config) = 2
    /\ \E t, u \in Threads :
          /\ handle[t] = 1
          /\ handle[u] = 2
          /\ obj_config[1] # None
          /\ obj_config[2] # None
    /\ GetMade
    /\ lastGet.result # lastGet.default

====
